---- MODULE Spec2Model ----
(***************************************************************************)
(* FullTracer (src/src/fulltracer.py): the tracer that records FrameInfo   *)
(* events and the parse() pass that filters and renders them.              *)
(*                                                                         *)
(* Python strings are sequences of characters; a character is a TLA+       *)
(* string standing for one code point ("ESC" is \033).  Regular            *)
(* expressions are restricted to literal patterns: re.match is a prefix    *)
(* test and re.search a substring test.  None is the one-element sequence  *)
(* <<"None">>, which no Python string of the model equals.                 *)
(***************************************************************************)
EXTENDS Integers, Sequences, FiniteSets, TLC

\* ------------------------------------------------------------ bounds
MaxTrace == 3
MaxDepth == 2
MaxParses == 2
MaxRetrace == 1
MaxConfigTrace == 2
MaxBracketTrace == 4
MaxLookups == 3
MaxDiskChanges == 1

\* ------------------------------------------------------------ characters
ESC == "ESC"
NL == "\n"
TAB == "\t"
QUOTE == "\""
RDQUO == "RDQUO"  \* the right double quotation mark, U+201D
None == <<"None">>
Whitespace == {" ", NL, TAB}
Digits == <<"0", "1", "2", "3", "4", "5", "6", "7", "8", "9">>

\* ------------------------------------------------------------ str methods
StartsWith(s, p) == Len(p) <= Len(s) /\ SubSeq(s, 1, Len(p)) = p

\* Python: p in s
Contains(s, p) == \E i \in 0..(Len(s) - Len(p)) : SubSeq(s, i + 1, i + Len(p)) = p

\* Python: s.find(p) + 1 for p not empty (0 when p does not occur)
Find(s, p) ==
    LET hits == {i \in 1..(Len(s) - Len(p) + 1) : s[i] = p[1] /\ SubSeq(s, i, i + Len(p) - 1) = p}
    IN  IF hits = {} THEN 0 ELSE CHOOSE i \in hits : \A j \in hits : i <= j

\* Python: s.replace(old, new), old not empty
RECURSIVE Replace(_, _, _)
Replace(s, old, new) ==
    LET i == Find(s, old) IN
    IF i = 0 THEN s
    ELSE SubSeq(s, 1, i - 1) \o new \o Replace(SubSeq(s, i + Len(old), Len(s)), old, new)

\* Python: s.split(sep), sep not empty
RECURSIVE Split(_, _)
Split(s, sep) ==
    LET i == Find(s, sep) IN
    IF i = 0 THEN <<s>>
    ELSE <<SubSeq(s, 1, i - 1)>> \o Split(SubSeq(s, i + Len(sep), Len(s)), sep)

\* Python: s.strip()
RECURSIVE LStrip(_)
LStrip(s) == IF s # <<>> /\ Head(s) \in Whitespace THEN LStrip(Tail(s)) ELSE s

RECURSIVE RStrip(_)
RStrip(s) ==
    IF s # <<>> /\ s[Len(s)] \in Whitespace THEN RStrip(SubSeq(s, 1, Len(s) - 1)) ELSE s

Strip(s) == RStrip(LStrip(s))

\* Python: sep.join(parts)
RECURSIVE Join(_, _)
Join(sep, parts) ==
    IF parts = <<>> THEN <<>>
    ELSE IF Len(parts) = 1 THEN parts[1]
    ELSE parts[1] \o sep \o Join(sep, Tail(parts))

\* Python: " " * k (empty when k <= 0)
Spaces(k) == [i \in 1..(IF k > 0 THEN k ELSE 0) |-> " "]

\* Python: str(n)
RECURSIVE StrNat(_)
StrNat(n) == IF n < 10 THEN <<Digits[n + 1]>> ELSE StrNat(n \div 10) \o <<Digits[(n % 10) + 1]>>

Str(n) == IF n < 0 THEN <<"-">> \o StrNat(-n) ELSE StrNat(n)

IsDigit(c) == \E d \in 1..10 : Digits[d] = c

DigitVal(c) == (CHOOSE d \in 1..10 : Digits[d] = c) - 1

RECURSIVE NatVal(_)
NatVal(ds) == IF ds = <<>> THEN 0 ELSE 10 * NatVal(SubSeq(ds, 1, Len(ds) - 1)) + DigitVal(ds[Len(ds)])

\* Python: int(v) succeeds: optional surrounding whitespace, optional sign, digits
IntBody(v) == LET t == Strip(v) IN IF t # <<>> /\ Head(t) \in {"-", "+"} THEN Tail(t) ELSE t

IsInt(v) == IntBody(v) # <<>> /\ \A i \in 1..Len(IntBody(v)) : IsDigit(IntBody(v)[i])

\* Python: int(v), for v with IsInt(v)
Int_(v) == LET t == Strip(v) IN IF Head(t) = "-" THEN -NatVal(IntBody(v)) ELSE NatVal(IntBody(v))

\* Python: len(re.findall("\033", s))
CountEsc(s) == Cardinality({j \in 1..Len(s) : s[j] = ESC})

\* re.match and re.search compile the pattern first: re.error for a malformed one
Malformed(pattern) == pattern = <<"(">>

\* re.match / re.search for a literal pattern
ReMatch(pattern, s) == StartsWith(s, pattern)

ReSearch(pattern, s) == Contains(s, pattern)

\* ------------------------------------------------------------ Colors, HyperLinks
GREEN == <<ESC, "[", "3", "2", "m">>
YELLOW == <<ESC, "[", "9", "3", "m">>
RESET_FMT == <<ESC, "[", "0", "m">>

PYCHARM_LINK ==
    <<"F", "i", "l", "e", " ", QUOTE, "%", "f", "i", "l", "e", QUOTE, ",", " ",
      "l", "i", "n", "e", " ", "%", "l", "i", "n", "e", "n", "o">>

\* placeholders of the templates
P_file == <<"%", "f", "i", "l", "e">>
P_func == <<"%", "f", "u", "n", "c">>
P_lineno == <<"%", "l", "i", "n", "e", "n", "o">>
P_event == <<"%", "e", "v", "e", "n", "t">>
P_depth_indent == <<"%", "d", "e", "p", "t", "h", "_", "i", "n", "d", "e", "n", "t">>
P_depth == <<"%", "d", "e", "p", "t", "h">>
P_line == <<"%", "l", "i", "n", "e">>

\* ------------------------------------------------------------ Config
DEFAULT == <<"%", "D", "E", "F", "A", "U", "L", "T", "%">>

\* The dataclass fields and their defaults.  max_depth is {} for None and {k}
\* for the integer k; IDE is neither vscode nor pycharm-hosted.
ConfigDefaults ==
    [anchor |-> <<"⚓">>,
     quotation_replacement |-> <<RDQUO>>,
     line_length |-> 80,
     not_found |-> YELLOW \o <<"N", "o", "t", " ", "f", "o", "u", "n", "d">> \o RESET_FMT,
     filename_pattern |-> None,
     func_name_pattern |-> None,
     line_pattern |-> None,
     ignore_unfound_lines |-> TRUE,
     max_depth |-> {},
     trace_lines |-> TRUE,
     parse |-> TRUE,
     depth_tab |-> <<>>,
     strip |-> FALSE,
     link |-> DEFAULT,
     mode |-> DEFAULT,
     consecutive_mode |-> DEFAULT,
     start_line_pattern |-> None,
     start_func_pattern |-> None,
     start_file_pattern |-> None]

DefaultMode(anchor, line_length, link) ==
    <<"(">> \o P_depth \o <<")">> \o P_depth_indent \o anchor \o <<"1", "0">> \o anchor
        \o P_line \o anchor \o Str(line_length + 10) \o anchor
        \o GREEN \o link \o <<" ", "(">> \o P_func \o <<")">> \o RESET_FMT

DefaultConsecutiveMode(anchor, line_length, link) ==
    <<" ">> \o anchor \o <<"1", "0">> \o anchor
        \o P_line \o anchor \o Str(line_length + 10) \o anchor
        \o GREEN \o link \o <<" ", "(">> \o P_func \o <<")">> \o RESET_FMT

\* Config.__post_init__
PostInit(c) ==
    LET link == IF c.link = DEFAULT THEN PYCHARM_LINK ELSE c.link IN
    [c EXCEPT
        !.link = link,
        !.mode = IF c.mode = DEFAULT THEN DefaultMode(c.anchor, c.line_length, link) ELSE c.mode,
        !.consecutive_mode =
            IF c.consecutive_mode = DEFAULT
            THEN DefaultConsecutiveMode(c.anchor, c.line_length, link)
            ELSE c.consecutive_mode]

\* Config(**kw); keyword arguments are a set of <<name, value>> pairs
ConfigNew(kw) ==
    PostInit([f \in DOMAIN ConfigDefaults |->
                IF \E e \in kw : e[1] = f THEN (CHOOSE e \in kw : e[1] = f)[2]
                ELSE ConfigDefaults[f]])

\* Config.replace(**kw): the keyword arguments that are not Config.DEFAULT
\* override the fields of c, and the result is constructed anew
ConfigReplace(c, kw) ==
    PostInit([f \in DOMAIN c |->
                IF \E e \in kw : e[1] = f /\ e[2] # DEFAULT
                THEN (CHOOSE e \in kw : e[1] = f)[2]
                ELSE c[f]])

\* ------------------------------------------------------------ the files on disk
FileA == <<"a">>
FileM == <<"m">>
FileU == <<"u">>

\* open(filename) and f.readlines(): file a holds two lines, file u exists but the
\* process may not read it, file m does not exist
FileSystem(filename) ==
    IF filename = FileA
    THEN [status |-> "ok", content |-> << <<" ", "x", NL>>, <<"y", QUOTE, NL>> >>]
    ELSE IF filename = FileU
    THEN [status |-> "unreadable", content |-> <<>>]
    ELSE [status |-> "missing", content |-> <<>>]

Files == {FileA, FileM, FileU}

\* the files on disk when the pass begins
Disk0 == [filename \in Files |-> FileSystem(filename)]

\* ------------------------------------------------------------ inputs
FuncA == <<"A">>
FuncB == <<"B">>

\* The places (filename, function, line) the traced program executes: function A
\* on lines 1 and 2 of file a and on a line 3 the file on disk no longer has,
\* function B on line 1 of file a, function A in the missing file m and in the
\* unreadable file u.
Sites ==
    {<<FileA, FuncA, 1>>, <<FileA, FuncA, 2>>, <<FileA, FuncA, 3>>, <<FileA, FuncB, 1>>,
     <<FileM, FuncA, 1>>, <<FileU, FuncA, 1>>}
EventKinds == {"call", "line", "return"}

EventName(kind) ==
    CASE kind = "call" -> <<"c", "a", "l", "l">>
      [] kind = "line" -> <<"l", "i", "n", "e">>
      [] kind = "return" -> <<"r", "e", "t", "u", "r", "n">>

\* a regular expression re cannot compile: "("
BadPattern == <<"(">>

\* The configurations a tracer is constructed with: FullTracer(line_length=2, ...)
Base == [ConfigDefaults EXCEPT !.line_length = 2]

Configs ==
    { PostInit(c) : c \in
        { Base,
          [Base EXCEPT !.ignore_unfound_lines = FALSE],
          [Base EXCEPT !.trace_lines = FALSE],
          [Base EXCEPT !.max_depth = {1}],
          [Base EXCEPT !.max_depth = {0}],
          [Base EXCEPT !.filename_pattern = FileA],
          [Base EXCEPT !.func_name_pattern = FuncA],
          [Base EXCEPT !.func_name_pattern = BadPattern],
          [Base EXCEPT !.start_func_pattern = FuncB],
          [Base EXCEPT !.line_pattern = <<"y">>],
          [Base EXCEPT !.line_pattern = <<"y">>, !.func_name_pattern = FuncA],
          [Base EXCEPT !.anchor = <<"y">>, !.ignore_unfound_lines = FALSE] } }

\* ------------------------------------------------------------ state
VARIABLES
    configuration,        \* self.configuration
    parse_config,         \* config of parse(): the configuration of the pass
    trace,                \* self.trace
    depth,                \* self.depth
    trace_lines,          \* self.trace_lines
    started,              \* self.parsing_state["started"]
    ignoring,             \* self.parsing_state["ignoring"]
    last_file_func_line,  \* self.parsing_state["last_file_func_line"]
    lines,                \* self.parsing_state["lines"]
    parsed_trace,         \* self.parsing_state["parsed_trace"]
    parsed_string,        \* self.parsed_string
    pc,                   \* "idle", or "parsing" inside the loop of parse()
    idx,                  \* position of the loop of parse() in self.trace
    raised,               \* the exception the last parse() that ended raised, or "none"
    parses,               \* number of calls of parse() so far
    outcome,              \* what _parse_frame_info did with the last event
    rej_depth,            \* depth of the pending Gate rejection in this pass, or -1
    cleared,              \* clear() has been called
    a_mode,               \* _parse_line: mode after the placeholders are replaced
    a_parts,              \* _parse_line: parts
    a_i,                  \* _parse_line: i, the index of the next part
    a_out,                \* _parse_line: parsed_line
    a_pc,                 \* _parse_line: "off", "split", "loop", "done" or "raised"
    c_pc,                 \* _get_line: "off", "pass", or "raised" once a lookup has raised
    c_disk,               \* _get_line: the files on disk now
    c_opens,              \* _get_line: the number of open(filename) calls, per filename
    c_first,              \* _get_line: the first return for each (filename, line_no)
    c_ret,                \* _get_line: the last lookup and what it returned
    c_n,                  \* _get_line: the number of lookups so far
    c_changes             \* the number of changes of the disk so far

tvars == <<configuration, parse_config, trace, depth, trace_lines, started, ignoring, last_file_func_line, lines,
           parsed_trace, parsed_string, pc, idx, raised, parses, outcome, rej_depth, cleared>>

avars == <<a_mode, a_parts, a_i, a_out, a_pc>>

cvars == <<c_pc, c_disk, c_opens, c_first, c_ret, c_n, c_changes>>

vars == <<tvars, avars, cvars>>

UNPARSED == <<"u", "n", "p", "a", "r", "s", "e", "d">>
PARSING == <<"p", "a", "r", "s", "i", "n", "g">>
SENTINEL == <<<<>>, <<>>, -2>>
NoOutcome == [kind |-> "none", mode |-> "none"]

\* the parsing_state FullTracer.__init__ builds
FreshState ==
    [started |-> FALSE, ignoring |-> 0, last_file_func_line |-> SENTINEL, lines |-> <<>>,
     parsed_trace |-> <<>>]

\* FullTracer.__init__
TracerInit ==
    /\ configuration \in Configs
    /\ parse_config = configuration
    /\ trace = <<>>
    /\ depth = 0
    /\ trace_lines = configuration.trace_lines
    /\ started = FreshState.started
    /\ ignoring = FreshState.ignoring
    /\ last_file_func_line = FreshState.last_file_func_line
    /\ lines = FreshState.lines
    /\ parsed_trace = FreshState.parsed_trace
    /\ parsed_string = UNPARSED
    /\ pc = "idle"
    /\ idx = 0
    /\ raised = "none"
    /\ parses = 0
    /\ outcome = NoOutcome
    /\ rej_depth = -1
    /\ cleared = FALSE

AlignOff == a_mode = <<>> /\ a_parts = <<>> /\ a_i = 0 /\ a_out = <<>> /\ a_pc = "off"

NoReturn == [filename |-> <<>>, line_no |-> 0, line |-> <<>>, line_found |-> FALSE]

CacheOff ==
    /\ c_pc = "off"
    /\ c_disk = Disk0
    /\ c_opens = [filename \in Files |-> 0]
    /\ c_first = <<>>
    /\ c_ret = NoReturn
    /\ c_n = 0
    /\ c_changes = 0

Init == TracerInit /\ AlignOff /\ CacheOff

\* ------------------------------------------------------------ the static methods
\* FullTracer._check_start
CheckStart(frame_info, config, line) ==
    /\ (config.start_line_pattern = None \/ ReMatch(config.start_line_pattern, line))
    /\ (config.start_func_pattern = None \/ ReMatch(config.start_func_pattern, frame_info.func_name))
    /\ (config.start_file_pattern = None \/ ReMatch(config.start_file_pattern, frame_info.filename))

\* the exception _check_start raises ("none" when it returns): the patterns are
\* matched from left to right until one fails
CheckStartExc(frame_info, config, line) ==
    IF config.start_line_pattern # None /\ Malformed(config.start_line_pattern) THEN "re.error"
    ELSE IF config.start_line_pattern # None /\ ~ReMatch(config.start_line_pattern, line)
    THEN "none"
    ELSE IF config.start_func_pattern # None /\ Malformed(config.start_func_pattern)
    THEN "re.error"
    ELSE IF config.start_func_pattern # None
            /\ ~ReMatch(config.start_func_pattern, frame_info.func_name)
    THEN "none"
    ELSE IF config.start_file_pattern # None /\ Malformed(config.start_file_pattern)
    THEN "re.error"
    ELSE "none"

\* Python truth value of max_depth: None and 0 are false
Truthy(max_depth) == max_depth # {} /\ max_depth # {0}

\* FullTracer._should_trace_line
ShouldTraceLine(frame_info, config) ==
    IF ~config.trace_lines /\ frame_info.event # EventName("call") THEN FALSE
    ELSE IF Truthy(config.max_depth) /\ \A m \in config.max_depth : frame_info.depth > m THEN FALSE
    ELSE IF config.filename_pattern # None /\ ~ReMatch(config.filename_pattern, frame_info.filename)
    THEN FALSE
    ELSE IF config.func_name_pattern # None /\ ~ReMatch(config.func_name_pattern, frame_info.func_name)
    THEN FALSE
    ELSE TRUE

\* the exception _should_trace_line raises ("none" when it returns)
ShouldTraceLineExc(frame_info, config) ==
    IF ~config.trace_lines /\ frame_info.event # EventName("call") THEN "none"
    ELSE IF Truthy(config.max_depth) /\ \A m \in config.max_depth : frame_info.depth > m
    THEN "none"
    ELSE IF config.filename_pattern # None /\ Malformed(config.filename_pattern) THEN "re.error"
    ELSE IF config.filename_pattern # None /\ ~ReMatch(config.filename_pattern, frame_info.filename)
    THEN "none"
    ELSE IF config.func_name_pattern # None /\ Malformed(config.func_name_pattern)
    THEN "re.error"
    ELSE "none"

\* Python: 0 <= k < len(seq) or -len(seq) <= k < 0
IndexOk(seq, k) == -Len(seq) <= k /\ k < Len(seq)

\* Python: seq[k]
Index(seq, k) == IF k >= 0 THEN seq[k + 1] ELSE seq[Len(seq) + k + 1]

\* FullTracer._get_line with the files of disk: the line, line_found, the cache
\* after the call and the exception that leaves the function ("none" when it
\* returns)
GetLineFrom(disk, frame_info, cache, config) ==
    LET fn == frame_info.filename
        file == disk[fn]
        hit == fn \in DOMAIN cache
        loaded == [f \in DOMAIN cache \cup {fn} |-> IF f = fn THEN file.content ELSE cache[f]]
        cache2 == IF hit THEN cache ELSE loaded
        k == frame_info.line_no - 1
    IN  IF ~hit /\ file.status = "missing"
        THEN [exc |-> "none", line |-> config.not_found, line_found |-> FALSE, lines |-> cache]
        ELSE IF ~hit /\ file.status # "ok"
        THEN [exc |-> "PermissionError", line |-> <<>>, line_found |-> TRUE, lines |-> cache]
        ELSE IF ~IndexOk(cache2[fn], k)
        THEN [exc |-> "IndexError", line |-> <<>>, line_found |-> TRUE, lines |-> cache2]
        ELSE [exc |-> "none",
              line |-> LET l == Index(cache2[fn], k) IN SubSeq(l, 1, Len(l) - 1),
              line_found |-> TRUE,
              lines |-> cache2]

\* FullTracer._get_line with the files as they are when the pass begins
GetLine(frame_info, cache, config) == GetLineFrom(Disk0, frame_info, cache, config)

\* a line filter that lets every line through
ShouldIncludeLineAlways(line, config) == TRUE

\* FullTracer._should_include_line
ShouldIncludeLine(line, config) ==
    config.line_pattern = None \/ ReSearch(config.line_pattern, line)

\* the exception _should_include_line raises ("none" when it returns)
ShouldIncludeLineExc(line, config) ==
    IF config.line_pattern # None /\ Malformed(config.line_pattern) THEN "re.error" ELSE "none"

\* a continuation test that forgets the function name
IsConsecutiveLineAnyFunc(frame_info, last) ==
    /\ frame_info.filename = last[1]
    /\ frame_info.line_no = last[3] + 1

\* FullTracer._is_consecutive_line
IsConsecutiveLine(frame_info, last) ==
    /\ <<frame_info.filename, frame_info.func_name>> = <<last[1], last[2]>>
    /\ frame_info.line_no = last[3] + 1

\* FullTracer._format_line
FormatLine(line, config) ==
    LET formatted_line == Replace(line, <<QUOTE>>, config.quotation_replacement)
    IN  IF config.strip THEN Strip(formatted_line) ELSE formatted_line

\* the exception _format_line raises ("none" when it returns): str.replace takes
\* a str as its second argument, and raises TypeError for None
FormatLineExc(line, config) ==
    IF config.quotation_replacement = None THEN "TypeError" ELSE "none"

\* a padding that does not count escape sequences
PaddingNoEscapes(v, parsed_line) == Spaces(Int_(v) - Len(parsed_line))

\* a padding without the extra space for a line that holds an escape sequence
PaddingNoExtra(v, parsed_line) ==
    Spaces(Int_(v) - Len(parsed_line) + CountEsc(parsed_line) * 4)

\* the spaces one width specifier v adds to parsed_line
Padding(v, parsed_line) ==
    LET n == CountEsc(parsed_line)
    IN  Spaces(Int_(v) - Len(parsed_line) + n * 4 + (IF n > 0 THEN 1 ELSE 0))

\* the loop over mode.split(config.anchor), from part i on
RECURSIVE Align(_, _, _)
Align(parts, i, parsed_line) ==
    IF i > Len(parts) THEN [exc |-> "none", value |-> parsed_line]
    ELSE IF (i - 1) % 2 = 0 THEN Align(parts, i + 1, parsed_line \o parts[i])
    ELSE IF ~IsInt(parts[i]) THEN [exc |-> "ValueError", value |-> parsed_line]
    ELSE Align(parts, i + 1, parsed_line \o Padding(parts[i], parsed_line))

\* the function name _parse_line shows
FormattedFuncName(frame_info, last) ==
    LET same_line == frame_info.filename = last[1] /\ frame_info.line_no = last[3]
    IN  IF ~same_line THEN frame_info.func_name
        ELSE last[2] \o <<"=", ">">> \o frame_info.func_name

\* the text _parse_line puts in place of %line
LineText(mode, line_formatted, config) ==
    LET linked == Contains(mode, config.link)
        formatted_line ==
            IF linked /\ config.quotation_replacement # None
            THEN Replace(line_formatted, <<QUOTE>>, config.quotation_replacement)
            ELSE line_formatted
    IN  IF config.strip THEN Strip(formatted_line) ELSE formatted_line

\* the placeholders of mode replaced, before the split
Substitute(mode, frame_info, line_formatted, last, config) ==
    LET m1 == Replace(mode, P_file, frame_info.filename)
        m2 == Replace(m1, P_func, FormattedFuncName(frame_info, last))
        m3 == Replace(m2, P_lineno, Str(frame_info.line_no))
        m4 == Replace(m3, P_event, frame_info.event)
        depth_indent == Join(<<>>, [i \in 1..frame_info.depth |-> config.depth_tab])
        m5 == Replace(m4, P_depth_indent, depth_indent)
        m6 == Replace(m5, P_depth, Str(frame_info.depth))
    IN  Replace(m6, P_line, LineText(mode, line_formatted, config))

\* FullTracer._parse_line
ParseLine(mode, frame_info, line_formatted, last, config) ==
    Align(Split(Substitute(mode, frame_info, line_formatted, last, config), config.anchor),
          1, <<>>)

\* an entry put in front of the others
PrependEntry(entries, parsed_line) == <<parsed_line>> \o entries

\* parsing_state["parsed_trace"].append(parsed_line)
AppendEntry(entries, parsed_line) == Append(entries, parsed_line)

\* a start check that is repeated on every found line
StartedAfterRecheck(ps, frame_info, config, g) ==
    IF g.line_found THEN CheckStart(frame_info, config, g.line) ELSE ps.started

\* parsing_state["started"] after the start check of _parse_frame_info, g the
\* result of _get_line
StartedAfter(ps, frame_info, config, g) ==
    IF ~ps.started /\ g.line_found THEN CheckStart(frame_info, config, g.line)
    ELSE ps.started

\* ------------------------------------------------------------ one event of a pass
\* FullTracer._parse_frame_info on the parsing state ps: the parsing state after
\* the call, the exception that leaves it ("none" when it returns), what was done
\* with the event (kind) and the template chosen (mode)
ParseFrameInfoResult(ps, frame_info, config) ==
    LET ign == IF ps.ignoring # 0 /\ frame_info.depth < ps.ignoring THEN 0 ELSE ps.ignoring
        last == ps.last_file_func_line
        g == GetLine(frame_info, ps.lines, config)
        started1 == StartedAfter(ps, frame_info, config, g)
        consecutive == IsConsecutiveLine(frame_info, last)
        mode == IF consecutive THEN config.consecutive_mode ELSE config.mode
        r == ParseLine(mode, frame_info, FormatLine(g.line, config), last, config)
        base == [started |-> ps.started, ignoring |-> ign, last_file_func_line |-> last,
                 lines |-> ps.lines, parsed_trace |-> ps.parsed_trace,
                 exc |-> "none", kind |-> "ignored", mode |-> "none"]
    IN  IF ign # 0 THEN base
        ELSE IF ps.started /\ ShouldTraceLineExc(frame_info, config) # "none"
        THEN [base EXCEPT !.exc = ShouldTraceLineExc(frame_info, config), !.kind = "raised"]
        ELSE IF ps.started /\ ~ShouldTraceLine(frame_info, config)
        THEN [base EXCEPT !.ignoring = frame_info.depth, !.kind = "rejected"]
        ELSE IF g.exc # "none"
        THEN [base EXCEPT !.lines = g.lines, !.exc = g.exc, !.kind = "raised"]
        ELSE IF ~ps.started /\ g.line_found /\ CheckStartExc(frame_info, config, g.line) # "none"
        THEN [base EXCEPT !.lines = g.lines, !.exc = CheckStartExc(frame_info, config, g.line),
                          !.kind = "raised"]
        ELSE IF ~started1
        THEN [base EXCEPT !.lines = g.lines, !.started = started1, !.kind = "not_started"]
        ELSE IF ShouldIncludeLineExc(g.line, config) # "none"
        THEN [base EXCEPT !.lines = g.lines, !.started = started1,
                          !.exc = ShouldIncludeLineExc(g.line, config), !.kind = "raised"]
        ELSE IF ~ShouldIncludeLine(g.line, config)
        THEN [base EXCEPT !.lines = g.lines, !.started = started1, !.kind = "filtered"]
        ELSE IF FormatLineExc(g.line, config) # "none"
        THEN [base EXCEPT !.lines = g.lines, !.started = started1,
                          !.exc = FormatLineExc(g.line, config), !.kind = "raised"]
        ELSE IF r.exc # "none"
        THEN [base EXCEPT !.lines = g.lines, !.started = started1, !.exc = r.exc,
                          !.kind = "raised"]
        ELSE [base EXCEPT
                !.lines = g.lines,
                !.started = started1,
                !.parsed_trace =
                    IF ~(config.ignore_unfound_lines /\ ~g.line_found)
                    THEN AppendEntry(ps.parsed_trace, r.value)
                    ELSE ps.parsed_trace,
                !.last_file_func_line =
                    <<frame_info.filename, frame_info.func_name, frame_info.line_no>>,
                !.kind = IF ~(config.ignore_unfound_lines /\ ~g.line_found)
                         THEN "rendered" ELSE "unfound_dropped",
                !.mode = IF consecutive THEN "consecutive_mode" ELSE "mode"]

ParsingState ==
    [started |-> started, ignoring |-> ignoring, last_file_func_line |-> last_file_func_line,
     lines |-> lines, parsed_trace |-> parsed_trace]

\* ------------------------------------------------------------ actions
\* FullTracer.start(trace_lines), before anything is traced; arg = {} stands for
\* the default argument Config.DEFAULT
Start(arg) ==
    /\ pc = "idle"
    /\ trace = <<>>
    /\ depth = 0
    /\ parses = 0
    /\ trace_lines' = IF arg = {} THEN configuration.trace_lines ELSE TRUE \in arg
    /\ UNCHANGED <<configuration, parse_config, trace, depth, started, ignoring,
                   last_file_func_line, lines, parsed_trace, parsed_string, pc, idx,
                   raised, parses, outcome, rej_depth, cleared, avars, cvars>>

\* FullTracer.tracer / _tracer / _get_frame_info: sys.settrace reports a call, or
\* a line or a return of a frame whose call it reported; it reports those to the
\* local trace function, which tracer returns for a call only if self.trace_lines.
\* Events recorded after the last parse() of the model would never be read.
Tracer(kind, site) ==
    /\ pc = "idle"
    /\ kind # "call" => trace_lines
    /\ parses < MaxParses
    /\ IF kind = "call" THEN depth < MaxDepth ELSE depth >= 1
    /\ depth' = IF kind = "call" THEN depth + 1 ELSE IF kind = "return" THEN depth - 1 ELSE depth
    /\ trace' = Append(trace, [filename |-> site[1], func_name |-> site[2], line_no |-> site[3],
                               depth |-> depth', event |-> EventName(kind)])
    /\ UNCHANGED <<configuration, parse_config, trace_lines, started, ignoring,
                   last_file_func_line, lines, parsed_trace, parsed_string, pc, idx,
                   raised, parses, outcome, rej_depth, cleared, avars, cvars>>

\* a trace holds up to MaxTrace events, and up to MaxRetrace once clear() has
\* emptied it
TraceRoom == Len(trace) < (IF cleared THEN MaxRetrace ELSE MaxTrace)

\* the frames of the traced program after the events of tr, innermost last
RECURSIVE Frames(_)
Frames(tr) ==
    IF tr = <<>> THEN <<>>
    ELSE LET e == tr[Len(tr)]
             st == Frames(SubSeq(tr, 1, Len(tr) - 1))
         IN  IF e.event = EventName("call") THEN Append(st, <<e.filename, e.func_name>>)
             ELSE IF e.event = EventName("return") THEN SubSeq(st, 1, Len(st) - 1)
             ELSE st

\* sys.settrace reports a line or a return of the innermost frame only
InFrame(kind, site) ==
    kind # "call" => /\ Frames(trace) # <<>>
                     /\ Frames(trace)[Len(Frames(trace))] = <<site[1], site[2]>>

\* FullTracer.clear
Clear ==
    /\ pc = "idle"
    /\ trace' = <<>>
    /\ parsed_trace' = <<>>
    /\ parsed_string' = UNPARSED
    /\ cleared' = TRUE
    /\ UNCHANGED <<configuration, parse_config, depth, trace_lines, started, ignoring,
                   last_file_func_line, lines, pc, idx, raised, parses, outcome, rej_depth,
                   avars, cvars>>

\* FullTracer._get_config(*a, **kw)
GetConfig(a, kw) == ConfigReplace(IF Len(a) > 0 THEN a[1] ELSE configuration, kw)

\* FullTracer.parse(*a, **kw), up to the loop
ParseCall(a, kw) ==
    /\ pc = "idle"
    /\ parses < MaxParses
    /\ parse_config' = GetConfig(a, kw)
    /\ parsed_string' = PARSING
    /\ pc' = "parsing"
    /\ idx' = 1
    /\ parses' = parses + 1
    /\ outcome' = NoOutcome
    /\ rej_depth' = -1
    /\ UNCHANGED <<configuration, trace, depth, trace_lines, started, ignoring,
                   last_file_func_line, lines, parsed_trace, raised, cleared, avars, cvars>>

\* FullTracer.parse()
ParseBegin == ParseCall(<<>>, {})

\* one iteration of the loop of FullTracer.parse; an exception ends parse()
ParseFrameInfo ==
    /\ pc = "parsing"
    /\ idx <= Len(trace)
    /\ \E res \in {ParseFrameInfoResult(ParsingState, trace[idx], parse_config)} :
        LET frame_info == trace[idx]
            pending == IF rej_depth # -1 /\ frame_info.depth < rej_depth THEN -1 ELSE rej_depth
        IN  /\ started' = res.started
            /\ ignoring' = res.ignoring
            /\ last_file_func_line' = res.last_file_func_line
            /\ lines' = res.lines
            /\ parsed_trace' = res.parsed_trace
            /\ outcome' = [kind |-> res.kind, mode |-> res.mode]
            /\ raised' = res.exc
            /\ pc' = IF res.exc = "none" THEN "parsing" ELSE "idle"
            /\ idx' = IF res.exc = "none" THEN idx + 1 ELSE idx
            /\ rej_depth' = IF pending # -1 THEN pending
                            ELSE IF res.kind = "rejected" THEN frame_info.depth ELSE -1
    /\ UNCHANGED <<configuration, parse_config, trace, depth, trace_lines, parsed_string,
                   parses, cleared, avars, cvars>>

\* FullTracer.parse, after the loop
ParseEnd ==
    /\ pc = "parsing"
    /\ idx > Len(trace)
    /\ parsed_string' = Join(<<NL, TAB>>, parsed_trace)
    /\ pc' = "idle"
    /\ raised' = "none"
    /\ UNCHANGED <<configuration, parse_config, trace, depth, trace_lines, started,
                   ignoring, last_file_func_line, lines, parsed_trace, idx, parses,
                   outcome, rej_depth, cleared, avars, cvars>>

Next ==
    \/ \E arg \in {{}, {TRUE}, {FALSE}} : Start(arg)
    \/ \E kind \in EventKinds, site \in Sites : TraceRoom /\ Tracer(kind, site)
    \/ Clear
    \/ ParseBegin
    \/ ParseFrameInfo
    \/ ParseEnd

Spec == Init /\ [][Next]_vars

\* One pass: a tracer is constructed, records events, and parse() runs once.
PassNext ==
    \/ \E arg \in {{}, {TRUE}, {FALSE}} : Start(arg)
    \/ \E kind \in EventKinds, site \in Sites : parses = 0 /\ TraceRoom /\ Tracer(kind, site)
    \/ parses = 0 /\ ParseBegin
    \/ ParseFrameInfo
    \/ ParseEnd

SpecPass == Init /\ [][PassNext]_vars

\* One pass over a well-bracketed stream: every line and return event belongs to
\* the frame of the last call that has not returned.
BracketConfigs ==
    { PostInit(c) : c \in
        { Base,
          [Base EXCEPT !.max_depth = {1}],
          [Base EXCEPT !.filename_pattern = FileA],
          [Base EXCEPT !.func_name_pattern = FuncA] } }

BracketInit == Init /\ configuration \in BracketConfigs

BracketNext ==
    \/ \E kind \in EventKinds, site \in Sites :
            /\ parses = 0
            /\ Len(trace) < MaxBracketTrace
            /\ InFrame(kind, site)
            /\ Tracer(kind, site)
    \/ parses = 0 /\ ParseBegin
    \/ ParseFrameInfo
    \/ ParseEnd

SpecBracket == BracketInit /\ [][BracketNext]_vars

TypeOK ==
    /\ pc \in {"idle", "parsing"}
    /\ ignoring \in 0..MaxDepth
    /\ depth \in 0..MaxDepth
    /\ Len(trace) <= MaxTrace

\* ------------------------------------------------------------ configuration calls
\* FullTracer.configure(*a, **kw)
Configure(a, kw) ==
    /\ pc = "idle"
    /\ IF Len(a) > 0 /\ (kw # {} \/ Len(a) > 1)
       THEN raised' = "ValueError" /\ UNCHANGED configuration
       ELSE /\ raised' = "none"
            /\ configuration' = IF Len(a) > 0 THEN a[1] ELSE ConfigNew(kw)
    /\ UNCHANGED <<parse_config, trace, depth, trace_lines, started, ignoring,
                   last_file_func_line, lines, parsed_trace, parsed_string, pc, idx, parses,
                   outcome, rej_depth, cleared, avars, cvars>>

\* FullTracer.stop(*a, num_pop=num_pop, **kw) with parse left at its default:
\* trace.pop() raises IndexError on an empty trace; otherwise parse(*a, **kw)
\* follows if configuration.parse
Stop(a, kw, num_pop) ==
    /\ pc = "idle"
    /\ parses < MaxParses
    /\ trace' = SubSeq(trace, 1, Len(trace) - num_pop)
    /\ IF num_pop > Len(trace)
       THEN /\ raised' = "IndexError"
            /\ UNCHANGED <<parse_config, parsed_string, pc, idx, parses, outcome, rej_depth>>
       ELSE IF configuration.parse
       THEN /\ parse_config' = GetConfig(a, kw)
            /\ parsed_string' = PARSING
            /\ pc' = "parsing"
            /\ idx' = 1
            /\ parses' = parses + 1
            /\ outcome' = NoOutcome
            /\ rej_depth' = -1
            /\ UNCHANGED raised
       ELSE UNCHANGED <<parse_config, parsed_string, pc, idx, parses, outcome, rej_depth,
                        raised>>
    /\ UNCHANGED <<configuration, depth, trace_lines, started, ignoring, last_file_func_line,
                   lines, parsed_trace, cleared, avars, cvars>>

\* The arguments of the configuration calls: no Config object or one, and no
\* keyword option, a pattern, or a template left at Config.DEFAULT
ConfigArgs == {<<>>, <<PostInit([Base EXCEPT !.func_name_pattern = FuncA])>>}
KwArgs == {{}, {<<"func_name_pattern", FuncB>>}, {<<"mode", DEFAULT>>}}
NumPops == {0, 1}

ConfigInit == Init /\ configuration = PostInit(Base)

ConfigNext ==
    \/ \E a \in ConfigArgs, kw \in KwArgs : Configure(a, kw)
    \/ \E a \in ConfigArgs, kw \in KwArgs : ParseCall(a, kw)
    \/ \E a \in ConfigArgs, kw \in KwArgs, num_pop \in NumPops : Stop(a, kw, num_pop)
    \/ \E kind \in EventKinds, site \in Sites :
            Len(trace) < MaxConfigTrace /\ Tracer(kind, site)
    \/ ParseFrameInfo
    \/ ParseEnd

SpecConfig == ConfigInit /\ [][ConfigNext]_vars

\* ------------------------------------------------------------ templates and glyphs
\* The keyword options of parse(**kw) that decide the quote replacement: none, a
\* template that is the line alone (it does not contain config.link), and no glyph.
QuoteKwArgs ==
    {{}, {<<"mode", P_line>>}, {<<"quotation_replacement", None>>},
     {<<"mode", P_line>>, <<"quotation_replacement", None>>}}

QuoteInit == Init /\ configuration = PostInit(Base)

\* One pass of a tracer constructed with FullTracer(line_length=2), parse(**kw)
QuoteNext ==
    \/ \E kind \in EventKinds, site \in Sites : parses = 0 /\ TraceRoom /\ Tracer(kind, site)
    \/ \E kw \in QuoteKwArgs : parses = 0 /\ ParseCall(<<>>, kw)
    \/ ParseFrameInfo
    \/ ParseEnd

SpecQuote == QuoteInit /\ [][QuoteNext]_vars

\* ------------------------------------------------------------ the source cache
\* The calls of _get_line of one pass, on the cache parsing_state["lines"], while
\* other processes create, rewrite and delete files.
DiskFiles ==
    {[status |-> "ok", content |-> << <<"z", NL>> >>], [status |-> "missing", content |-> <<>>]}

CacheInit ==
    /\ TracerInit
    /\ AlignOff
    /\ configuration = PostInit(Base)
    /\ c_pc = "pass"
    /\ c_disk = Disk0
    /\ c_opens = [filename \in Files |-> 0]
    /\ c_first = <<>>
    /\ c_ret = NoReturn
    /\ c_n = 0
    /\ c_changes = 0

\* _get_line(frame_info, parsing_state["lines"], config) for an event at site;
\* open(filename) is called when the filename is not in the cache, and an
\* exception ends the pass
Lookup(site) ==
    /\ c_pc = "pass"
    /\ c_n < MaxLookups
    /\ LET frame_info == [filename |-> site[1], func_name |-> site[2], line_no |-> site[3],
                          depth |-> 1, event |-> EventName("line")]
           g == GetLineFrom(c_disk, frame_info, lines, configuration)
           key == <<site[1], site[3]>>
       IN  /\ lines' = g.lines
           /\ c_opens' = IF site[1] \in DOMAIN lines THEN c_opens
                         ELSE [c_opens EXCEPT ![site[1]] = @ + 1]
           /\ c_pc' = IF g.exc = "none" THEN "pass" ELSE "raised"
           /\ c_ret' = IF g.exc # "none" THEN c_ret
                       ELSE [filename |-> site[1], line_no |-> site[3], line |-> g.line,
                             line_found |-> g.line_found]
           /\ c_first' = IF g.exc # "none" \/ key \in DOMAIN c_first THEN c_first
                         ELSE [k \in DOMAIN c_first \cup {key} |->
                                 IF k = key THEN [line |-> g.line, line_found |-> g.line_found]
                                 ELSE c_first[k]]
    /\ c_n' = c_n + 1
    /\ UNCHANGED <<configuration, parse_config, trace, depth, trace_lines, started, ignoring,
                   last_file_func_line, parsed_trace, parsed_string, pc, idx, raised, parses,
                   outcome, rej_depth, cleared, avars, c_disk, c_changes>>

\* between two lookups a file is created, rewritten or deleted
DiskChange(filename, file) ==
    /\ c_pc = "pass"
    /\ c_changes < MaxDiskChanges
    /\ c_disk[filename] # file
    /\ c_disk' = [c_disk EXCEPT ![filename] = file]
    /\ c_changes' = c_changes + 1
    /\ UNCHANGED <<tvars, avars, c_pc, c_opens, c_first, c_ret, c_n>>

CacheNext ==
    \/ \E site \in Sites : Lookup(site)
    \/ \E filename \in Files, file \in DiskFiles : DiskChange(filename, file)

SpecCache == CacheInit /\ [][CacheNext]_vars

\* ------------------------------------------------------------ the alignment loop
\* The loop at the end of _parse_line, one iteration at a time, on the strings
\* mode can be once its placeholders are replaced.
Literals0 ==
    {<<"X">>, <<>>, GREEN \o <<"X">>, <<"X">> \o RESET_FMT, YELLOW \o <<"X">> \o RESET_FMT,
     <<"a", "b", "c", "d", "e", "f">>}
Literals1 == {<<"Y">>, GREEN \o <<"Y">>, <<>>}
Widths == {<<"5">>, <<"0">>, <<"1", "2">>, <<" ", "3">>, <<"w">>, <<>>}

AlignInputs ==
    LET a == ConfigDefaults.anchor IN
    {l0 \o a \o w \o a \o l1 : l0 \in Literals0, w \in Widths, l1 \in Literals1}
    \cup {l0 \o a \o w \o a \o l1 \o a \o <<"1", "4">> \o a \o <<"Z">> :
            l0 \in Literals0, w \in {<<"5">>, <<"1", "2">>}, l1 \in Literals1}
    \cup {<<"X">>, <<"X">> \o a \o <<"5">>}

AlignInit ==
    /\ TracerInit
    /\ configuration = PostInit(Base)
    /\ a_mode \in AlignInputs
    /\ a_parts = <<>>
    /\ a_i = 0
    /\ a_out = <<>>
    /\ a_pc = "split"
    /\ CacheOff

\* parts = mode.split(config.anchor); parsed_line = ""
AlignSplit ==
    /\ a_pc = "split"
    /\ a_parts' = Split(a_mode, configuration.anchor)
    /\ a_out' = <<>>
    /\ a_i' = 0
    /\ a_pc' = "loop"
    /\ UNCHANGED <<tvars, cvars, a_mode>>

\* i % 2 == 0: parsed_line += v
AlignLiteral ==
    /\ a_pc = "loop" /\ a_i < Len(a_parts) /\ a_i % 2 = 0
    /\ a_out' = a_out \o a_parts[a_i + 1]
    /\ a_i' = a_i + 1
    /\ UNCHANGED <<tvars, cvars, a_mode, a_parts, a_pc>>

\* else: parsed_line += " " * (int(v) - len(parsed_line) + n * 4 + int(n > 0))
AlignWidth ==
    /\ a_pc = "loop" /\ a_i < Len(a_parts) /\ a_i % 2 = 1
    /\ IsInt(a_parts[a_i + 1])
    /\ a_out' = a_out \o Padding(a_parts[a_i + 1], a_out)
    /\ a_i' = a_i + 1
    /\ UNCHANGED <<tvars, cvars, a_mode, a_parts, a_pc>>

\* int(v) raises ValueError
AlignRaise ==
    /\ a_pc = "loop" /\ a_i < Len(a_parts) /\ a_i % 2 = 1
    /\ ~IsInt(a_parts[a_i + 1])
    /\ a_pc' = "raised"
    /\ UNCHANGED <<tvars, cvars, a_mode, a_parts, a_i, a_out>>

\* return parsed_line
AlignReturn ==
    /\ a_pc = "loop" /\ a_i = Len(a_parts)
    /\ a_pc' = "done"
    /\ UNCHANGED <<tvars, cvars, a_mode, a_parts, a_i, a_out>>

AlignNext == AlignSplit \/ AlignLiteral \/ AlignWidth \/ AlignRaise \/ AlignReturn

SpecAlign == AlignInit /\ [][AlignNext]_vars

\* the loop, step by step, computes what Align computes in one go
AlignAgrees ==
    a_pc \in {"done", "raised"}
        => LET r == Align(Split(a_mode, configuration.anchor), 1, <<>>)
           IN  r.value = a_out /\ (r.exc = "none") = (a_pc = "done")

\* ------------------------------------------------------------ properties
\* the next step of the pass is _parse_frame_info on trace[idx]
AtEvent == pc = "parsing" /\ idx <= Len(trace)

Last(seq) == seq[Len(seq)]

\* C1: once the Gate rejects an event by rules 3-6 at depth d (any d >= 0), every
\* later event of the pass with depth >= d that comes before an event with
\* depth < d adds no entry to parsed_trace.
C1_SubtreeSuppressed ==
    [][(AtEvent /\ rej_depth >= 0 /\ trace[idx].depth >= rej_depth)
        => parsed_trace' = parsed_trace]_vars

\* The same for rejections at a depth d >= 1, where ignoring = d is not the
\* value that means "not ignoring".
SuppressedBelowPositiveDepth ==
    [][(AtEvent /\ rej_depth >= 1 /\ trace[idx].depth >= rej_depth)
        => /\ parsed_trace' = parsed_trace
           /\ outcome'.kind = "ignored"]_vars

\* the event satisfies all configured start_* patterns on its resolved text
StartMatch(frame_info) ==
    LET g == GetLine(frame_info, <<>>, configuration)
    IN  g.exc = "none" /\ g.line_found /\ CheckStart(frame_info, configuration, g.line)

\* the event passes the Gate in the current state and the line-inclusion filter,
\* is not an unfound line that ignore_unfound_lines drops, and its rendering
\* raises nothing
Admissible(frame_info) ==
    LET g == GetLine(frame_info, <<>>, configuration)
    IN  /\ (ignoring = 0 \/ frame_info.depth < ignoring)
        /\ ShouldTraceLine(frame_info, configuration)
        /\ g.exc = "none"
        /\ ShouldIncludeLine(g.line, configuration)
        /\ g.line_found \/ ~configuration.ignore_unfound_lines
        /\ \A mode \in {configuration.mode, configuration.consecutive_mode} :
                ParseLine(mode, frame_info, FormatLine(g.line, configuration),
                          last_file_func_line, configuration).exc = "none"

\* some start_* pattern is configured
StartConfigured(config) ==
    \/ config.start_line_pattern # None
    \/ config.start_func_pattern # None
    \/ config.start_file_pattern # None

\* C2: in one pass, an event processed before the first event that satisfies all
\* configured start_* patterns adds no entry (stated for configurations with a
\* start pattern and passes that follow passes that raised nothing); the
\* matching event and every admissible event after it adds one entry.
C2_StartGating ==
    [][/\ (AtEvent /\ raised = "none" /\ StartConfigured(configuration)
                /\ \A j \in 1..idx : ~StartMatch(trace[j]))
            => parsed_trace' = parsed_trace
       /\ (AtEvent /\ (\E j \in 1..idx : StartMatch(trace[j])) /\ Admissible(trace[idx]))
            => Len(parsed_trace') = Len(parsed_trace) + 1]_vars

SameLine(frame_info, last) == frame_info.filename = last[1] /\ frame_info.line_no = last[3]

\* C3: a rendered event on the same file and line as last_file_func_line replaces
\* the last entry of parsed_trace instead of being appended, and shows
\* previous_function=>current_function.
C3_SameLineReplaces ==
    [][(AtEvent /\ SameLine(trace[idx], last_file_func_line) /\ outcome'.kind = "rendered")
        => /\ Len(parsed_trace') = Len(parsed_trace)
           /\ parsed_trace' # <<>>
           /\ Contains(Last(parsed_trace'),
                       last_file_func_line[2] \o <<"=", ">">> \o trace[idx].func_name)]_vars

\* C4: an event that reaches _parse_line is rendered with consecutive_mode (the
\* entry starts with the blank of the default consecutive template) exactly when
\* its filename and function equal those of last_file_func_line and its line is
\* the next one; otherwise, and always from the sentinel, with mode (the entry
\* starts with the parenthesis of the default template).
C4_Continuation ==
    [][(AtEvent /\ outcome'.kind \in {"rendered", "unfound_dropped"})
        => LET frame_info == trace[idx]
               last == last_file_func_line
               follows == /\ frame_info.filename = last[1]
                          /\ frame_info.func_name = last[2]
                          /\ frame_info.line_no = last[3] + 1
           IN  /\ outcome'.mode = IF follows THEN "consecutive_mode" ELSE "mode"
               /\ last = SENTINEL => outcome'.mode = "mode"
               /\ outcome'.kind = "rendered"
                    => /\ parsed_trace' # parsed_trace
                       /\ Head(Last(parsed_trace')) = IF follows THEN " " ELSE "("]_vars

C4_Witness ==
    /\ outcome.kind = "rendered"
    /\ outcome.mode = "consecutive_mode"
    /\ Len(parsed_trace) = 2
    /\ Head(parsed_trace[2]) = " "

\* no admission filter and no start pattern is configured
NoFilters(config) ==
    /\ config.filename_pattern = None /\ config.func_name_pattern = None
    /\ config.line_pattern = None /\ config.start_line_pattern = None
    /\ config.start_func_pattern = None /\ config.start_file_pattern = None
    /\ config.trace_lines /\ config.max_depth = {}

\* C5: an event whose file cannot be opened adds no entry when
\* ignore_unfound_lines is true, and exactly one entry holding the not-found
\* marker when it is false and no filter is configured, wherever it is in the trace.
C5_NotFound ==
    [][(AtEvent /\ FileSystem(trace[idx].filename).status # "ok")
        => IF configuration.ignore_unfound_lines
           THEN parsed_trace' = parsed_trace
           ELSE NoFilters(configuration)
                    => /\ Len(parsed_trace') = Len(parsed_trace) + 1
                       /\ SubSeq(parsed_trace', 1, Len(parsed_trace)) = parsed_trace
                       /\ Contains(Last(parsed_trace'), configuration.not_found)]_vars

\* one pass over tr[i..] from the parsing state ps
RECURSIVE PassFrom(_, _, _, _)
PassFrom(ps, tr, i, config) ==
    IF i > Len(tr) THEN [exc |-> "none", parsed_trace |-> ps.parsed_trace]
    ELSE LET r == ParseFrameInfoResult(ps, tr[i], config)
         IN  IF r.exc # "none" THEN [exc |-> r.exc, parsed_trace |-> r.parsed_trace]
             ELSE PassFrom([started |-> r.started, ignoring |-> r.ignoring,
                            last_file_func_line |-> r.last_file_func_line,
                            lines |-> r.lines, parsed_trace |-> r.parsed_trace],
                           tr, i + 1, config)

OnePass(tr, config) == PassFrom(FreshState, tr, 1, config)

\* C6: when a second parse() without a clear() in between reaches the end of the
\* (possibly extended) trace, parsed_trace is what one pass over that trace gives.
C6_RerunIdempotent ==
    (pc = "parsing" /\ idx > Len(trace) /\ parses >= 2 /\ ~cleared
        /\ OnePass(trace, configuration).exc = "none")
    => parsed_trace = OnePass(trace, configuration).parsed_trace

\* C7: at the start of each parse() and after clear() the parsing state is fresh
\* (stated for the passes that follow passes that raised nothing).
C7_FreshPerPass ==
    [][(/\ raised = "none"
        /\ \/ pc = "idle" /\ pc' = "parsing"
           \/ /\ pc = "idle" /\ pc' = "idle" /\ cleared' /\ parsed_string' = UNPARSED
              /\ (parsed_string # UNPARSED \/ ~cleared))
        => /\ started' = FALSE
           /\ ignoring' = 0
           /\ last_file_func_line' = SENTINEL
           /\ lines' = <<>>
           /\ parsed_trace' = <<>>]_vars

\* C10: parse() raises nothing and ends with parsed_string set to the joined output.
C10_PassCompletes ==
    /\ raised = "none"
    /\ pc = "idle" => parsed_string # PARSING

\* C11: an event that reaches _get_line and whose file cannot be opened, missing
\* or unreadable, gets the not-found marker with found = false, raises nothing,
\* and the pass goes on with the next event.
C11_UnopenableRecoverable ==
    [][(AtEvent /\ FileSystem(trace[idx].filename).status # "ok"
            /\ outcome'.kind \notin {"ignored", "rejected"})
        => LET g == GetLine(trace[idx], lines, configuration)
           IN  /\ g.exc = "none"
               /\ g.line = configuration.not_found
               /\ ~g.line_found
               /\ raised' = "none"
               /\ pc' = "parsing"
               /\ idx' = idx + 1]_vars

\* C12: a call of configure(), parse() or stop() with both a Config object and
\* keyword options raises an error, processes no event, and leaves the
\* configuration and the parsing state as they were.
C12_ConflictRejected ==
    [][\A a \in ConfigArgs, kw \in KwArgs :
        (/\ Len(a) > 0 /\ kw # {}
         /\ \/ Configure(a, kw)
            \/ ParseCall(a, kw)
            \/ \E num_pop \in NumPops : Stop(a, kw, num_pop))
        => /\ raised' # "none"
           /\ pc' = "idle"
           /\ configuration' = configuration
           /\ ParsingState' = ParsingState]_vars

\* The same for configure() alone, which checks its arguments.
ConfigureRejectsConflict ==
    [][\A a \in ConfigArgs, kw \in KwArgs :
        (Len(a) > 0 /\ kw # {} /\ Configure(a, kw))
        => /\ raised' = "ValueError"
           /\ pc' = "idle"
           /\ configuration' = configuration
           /\ ParsingState' = ParsingState]_vars

\* some pattern option of config is malformed
HasMalformed(config) ==
    \E pattern \in {config.filename_pattern, config.func_name_pattern, config.line_pattern,
                    config.start_line_pattern, config.start_func_pattern,
                    config.start_file_pattern} : Malformed(pattern)

\* C13: a Config with a malformed pattern is rejected when it is constructed,
\* so no pass runs with one and no parse() ends with the error of a malformed
\* pattern after it has processed events.
C13_MalformedFailsAtConstruction ==
    ~(raised = "re.error" /\ idx > 1 /\ HasMalformed(parse_config))

\* C14: once started is true, it is true after every later event of the pass,
\* whatever is done with the event.
C14_StartedMonotone ==
    [][(AtEvent /\ started) => started']_vars

\* after the start match, an event whose line is not found has been dropped
C14_Witness ==
    /\ pc = "parsing"
    /\ StartConfigured(parse_config)
    /\ started
    /\ idx > 2
    /\ outcome.kind = "unfound_dropped"

\* C15: an event of a pass adds at most one entry and removes none; the entries
\* before the last one stay as they are, and a new entry comes after all the
\* others, which stay as they are.
C15_OutputOrder ==
    [][AtEvent =>
        LET n == Len(parsed_trace)
            m == Len(parsed_trace')
        IN  /\ m \in {n, n + 1}
            /\ \A j \in 1..(n - 1) : parsed_trace'[j] = parsed_trace[j]
            /\ m = n + 1 => SubSeq(parsed_trace', 1, n) = parsed_trace]_vars

\* three events of one pass have added three entries, the last two different
C15_Witness ==
    /\ pc = "parsing"
    /\ parses = 1
    /\ idx = 4
    /\ Len(parsed_trace) = 3
    /\ parsed_trace[2] # parsed_trace[3]

\* C16: an event changes last_file_func_line only if it adds an entry to
\* parsed_trace; a dropped event, whatever dropped it, leaves it as it was.
C16_LastEmittedOnlyByRendered ==
    [][(AtEvent /\ parsed_trace' = parsed_trace)
        => last_file_func_line' = last_file_func_line]_vars

\* The same for the events that ignore_unfound_lines does not drop.
LastEmittedKeptByOtherDrops ==
    [][(AtEvent /\ parsed_trace' = parsed_trace /\ outcome'.kind # "unfound_dropped")
        => last_file_func_line' = last_file_func_line]_vars

\* C17: the event that sets started to true adds an entry only if it passes the
\* Gate rules 3-6 and the line-inclusion filter; if it fails rules 3-6 it adds no
\* entry and sets ignoring to its depth.
C17_StartEventNormalInclusion ==
    [][(AtEvent /\ ~started /\ started'
            /\ ShouldTraceLineExc(trace[idx], configuration) = "none")
        => LET frame_info == trace[idx]
               g == GetLine(frame_info, lines, configuration)
           IN  /\ parsed_trace' # parsed_trace
                    => /\ ShouldTraceLine(frame_info, configuration)
                       /\ ShouldIncludeLine(g.line, configuration)
               /\ ~ShouldTraceLine(frame_info, configuration)
                    => /\ parsed_trace' = parsed_trace
                       /\ ignoring' = frame_info.depth]_vars

\* The line-inclusion filter does apply to the event that sets started.
StartEventLineFiltered ==
    [][(AtEvent /\ ~started /\ started' /\ parsed_trace' # parsed_trace)
        => ShouldIncludeLine(GetLine(trace[idx], lines, configuration).line, configuration)]_vars

\* what a pass from the parsing state ps does with each of tr[i..]
RECURSIVE KindsFrom(_, _, _, _)
KindsFrom(ps, tr, i, config) ==
    IF i > Len(tr) THEN <<>>
    ELSE LET r == ParseFrameInfoResult(ps, tr[i], config)
         IN  <<r.kind>> \o
             (IF r.exc # "none" THEN <<>>
              ELSE KindsFrom([started |-> r.started, ignoring |-> r.ignoring,
                              last_file_func_line |-> r.last_file_func_line,
                              lines |-> r.lines, parsed_trace |-> r.parsed_trace],
                             tr, i + 1, config))

\* the event passes the Gate rules 3-6 and the line-inclusion filter, is not an
\* unfound line that ignore_unfound_lines drops, and its rendering raises nothing
PassesRules(frame_info) ==
    LET g == GetLine(frame_info, <<>>, configuration)
    IN  /\ ShouldTraceLineExc(frame_info, configuration) = "none"
        /\ ShouldTraceLine(frame_info, configuration)
        /\ g.exc = "none"
        /\ ShouldIncludeLineExc(g.line, configuration) = "none"
        /\ ShouldIncludeLine(g.line, configuration)
        /\ g.line_found \/ ~configuration.ignore_unfound_lines
        /\ \A mode \in {configuration.mode, configuration.consecutive_mode} :
                ParseLine(mode, frame_info, FormatLine(g.line, configuration),
                          last_file_func_line, configuration).exc = "none"

\* tr[k] is the return that matches the call tr[j]
MatchingReturn(tr, j, k) ==
    /\ tr[j].event = EventName("call")
    /\ tr[k].event = EventName("return")
    /\ tr[k].depth = tr[j].depth - 1
    /\ \A l \in (j + 1)..(k - 1) : tr[l].depth >= tr[j].depth

\* C18: in a well-bracketed stream, after a call at depth d is rejected by rules
\* 3-6 and has returned, the event of the caller (depth d-1) that follows the
\* matching return is rendered if it passes rules 3-6 and the line filter itself.
C18_SuppressionEndsWithSubtree ==
    [][(AtEvent /\ idx >= 3)
        => \A j \in 1..(idx - 2) :
            (/\ MatchingReturn(trace, j, idx - 1)
             /\ KindsFrom(FreshState, trace, 1, configuration)[j] = "rejected"
             /\ trace[idx].depth = trace[j].depth - 1
             /\ PassesRules(trace[idx]))
            => Len(parsed_trace') = Len(parsed_trace) + 1]_vars

\* The same when the matching return passes rules 3-6 itself (a call rejected
\* by max_depth only).
SuppressionEndsAfterAdmittedReturn ==
    [][(AtEvent /\ idx >= 3)
        => \A j \in 1..(idx - 2) :
            (/\ MatchingReturn(trace, j, idx - 1)
             /\ KindsFrom(FreshState, trace, 1, configuration)[j] = "rejected"
             /\ ShouldTraceLine(trace[idx - 1], configuration)
             /\ trace[idx].depth = trace[j].depth - 1
             /\ PassesRules(trace[idx]))
            => Len(parsed_trace') = Len(parsed_trace) + 1]_vars

\* the event is not ignored and gets past the Gate to the line-inclusion filter
ReachesFilter(frame_info) ==
    /\ ignoring = 0 \/ frame_info.depth < ignoring
    /\ ~started \/ /\ ShouldTraceLineExc(frame_info, configuration) = "none"
                   /\ ShouldTraceLine(frame_info, configuration)
    /\ GetLine(frame_info, lines, configuration).exc = "none"

\* C19: when line_pattern is set and is not found in the resolved text, the event
\* adds no entry, leaves last_file_func_line as it was, leaves started at what
\* the start check made it, and leaves ignoring at 0, where it is for every event
\* that is evaluated: the next event is not suppressed.
C19_LineFilterContentOnly ==
    [][(/\ AtEvent
        /\ configuration.line_pattern # None
        /\ ReachesFilter(trace[idx])
        /\ ~ReSearch(configuration.line_pattern,
                     GetLine(trace[idx], lines, configuration).line))
        => /\ parsed_trace' = parsed_trace
           /\ last_file_func_line' = last_file_func_line
           /\ ignoring' = 0
           /\ started' = StartedAfter(ParsingState, trace[idx], configuration,
                                      GetLine(trace[idx], lines, configuration))
           /\ raised' = "none"
           /\ pc' = "parsing"]_vars

\* after a Gate rejection had set ignoring, an event above the rejected depth
\* was dropped by the line filter and left the earlier entry and ignoring = 0
C19_Witness ==
    /\ pc = "parsing"
    /\ outcome.kind = "filtered"
    /\ idx = 4
    /\ KindsFrom(FreshState, trace, 1, configuration) = <<"rendered", "rejected", "filtered">>
    /\ ignoring = 0
    /\ Len(parsed_trace) = 1

\* the event is evaluated by the Gate, and its depth is above max_depth
AboveCeiling(frame_info) ==
    /\ started
    /\ ignoring = 0 \/ frame_info.depth < ignoring
    /\ \E m \in configuration.max_depth : frame_info.depth > m

\* C20: for every max_depth that is set, 0 included, an event after start with
\* depth > max_depth is rejected by the Gate and sets ignoring to its depth.
C20_DepthCeiling ==
    [][(AtEvent /\ AboveCeiling(trace[idx]))
        => /\ outcome'.kind = "rejected"
           /\ parsed_trace' = parsed_trace
           /\ ignoring' = trace[idx].depth]_vars

\* The same for max_depth >= 1.
DepthCeilingPositive ==
    [][(AtEvent /\ AboveCeiling(trace[idx]) /\ configuration.max_depth # {0})
        => /\ outcome'.kind = "rejected"
           /\ parsed_trace' = parsed_trace
           /\ ignoring' = trace[idx].depth]_vars

\* the last event of the pass was rendered into the last entry of parsed_trace
RenderedEvent == pc = "parsing" /\ idx > 1 /\ outcome.kind = "rendered"

\* the template the last event was rendered with
Template ==
    IF outcome.mode = "consecutive_mode" THEN parse_config.consecutive_mode
    ELSE parse_config.mode

\* the template is linked and a glyph is configured
ReplacementApplies ==
    /\ Contains(Template, parse_config.link)
    /\ parse_config.quotation_replacement # None

\* the text the source cache resolves for the last event
ResolvedText == GetLine(trace[idx - 1], lines, parse_config).line

\* an entry rendered with a template that is not linked shows the resolved text
\* with its double quotes
UnlinkedKeepsQuotes ==
    (RenderedEvent /\ ~ReplacementApplies) => Contains(Last(parsed_trace), ResolvedText)

\* a pass without a glyph does not fail in the rendering
NoGlyphDoesNotFail ==
    parse_config.quotation_replacement = None => raised # "TypeError"

\* C21: the double quotes of the line text are replaced by the glyph only if the
\* template contains config.link and a glyph is configured; otherwise the resolved
\* text appears in the rendered entry with its double quotes, and rendering does
\* not fail.
C21_QuoteReplacementConditional == UnlinkedKeepsQuotes /\ NoGlyphDoesNotFail

\* What _format_line does before the template is looked at: with a glyph, every
\* rendered entry shows the resolved text with its double quotes replaced.
QuotesReplacedWithAnyTemplate ==
    (RenderedEvent /\ parse_config.quotation_replacement # None)
        => Contains(Last(parsed_trace),
                    Replace(ResolvedText, <<QUOTE>>, parse_config.quotation_replacement))

\* open(filename) has been called at most once for every filename
OpensOnce == \A filename \in Files : c_opens[filename] <= 1

\* the last lookup returned what the first lookup of its (filename, line_no) did
StableReturns ==
    c_ret # NoReturn
        => [line |-> c_ret.line, line_found |-> c_ret.line_found]
            = c_first[<<c_ret.filename, c_ret.line_no>>]

\* the step leaves every entry of the cache as it is
EntriesKept == \A filename \in DOMAIN lines : filename \in DOMAIN lines' /\ lines'[filename] = lines[filename]

\* C22: within a pass the file system is accessed only on the first lookup of a
\* filename, whether the file can be opened or not; the text and the found flag
\* returned for a (filename, line_no) are the same for the whole pass even if the
\* file appears or changes mid-pass; a loaded cache entry is never modified.
C22_SourceCacheReadsOnce == [][OpensOnce' /\ StableReturns' /\ EntriesKept]_vars

\* For the files that could be opened: a file that is in the cache is not opened
\* again.
CachedFilesNotReopened ==
    [][\A filename \in DOMAIN lines : c_opens'[filename] = c_opens[filename]]_vars

\* A (filename, line_no) first returned as found is returned the same for the
\* whole pass.
FoundReturnsStable ==
    (c_ret # NoReturn /\ c_first[<<c_ret.filename, c_ret.line_no>>].line_found)
        => StableReturns

\* A loaded cache entry is never modified.
LoadedEntryNeverModified == [][EntriesKept]_vars

Max0(k) == IF k > 0 THEN k ELSE 0

\* the number of escape-start characters of s
RECURSIVE EscCount(_)
EscCount(s) == IF s = <<>> THEN 0 ELSE (IF Head(s) = ESC THEN 1 ELSE 0) + EscCount(Tail(s))

\* the next iteration of the loop handles the width specifier a_parts[a_i + 1]
AtWidth == a_pc = "loop" /\ a_i < Len(a_parts) /\ a_i % 2 = 1 /\ IsInt(a_parts[a_i + 1])

\* C8: a width specifier W appends max(0, W - L + 4n + (1 if n > 0 else 0))
\* spaces, L the length of parsed_line and n its escape-start characters; a
\* literal segment is appended unchanged; with no escape sequence X<anchor>5<anchor>Y
\* renders as X, four spaces, Y.
C8_ColumnAlignment ==
    /\ [][/\ AtWidth =>
                LET W == Int_(a_parts[a_i + 1])
                    L == Len(a_out)
                    n == EscCount(a_out)
                    k == Max0(W - L + 4 * n + (IF n > 0 THEN 1 ELSE 0))
                IN  a_out' = a_out \o [j \in 1..k |-> " "]
          /\ (a_pc = "loop" /\ a_i < Len(a_parts) /\ a_i % 2 = 0)
                => a_out' = a_out \o a_parts[a_i + 1]]_vars
    /\ [](a_pc = "done" /\ a_mode = <<"X", "⚓", "5", "⚓", "Y">>
            => a_out = <<"X", " ", " ", " ", " ", "Y">>)

C8_Witness ==
    /\ a_pc = "done"
    /\ a_mode = <<"X", "⚓", "5", "⚓", "Y">>
    /\ a_out = <<"X", " ", " ", " ", " ", "Y">>

\* s without the color codes of Colors
Visible(s) == Replace(Replace(Replace(s, GREEN, <<>>), YELLOW, <<>>), RESET_FMT, <<>>)

\* C9 as stated: with one color code in parsed_line before the width specifier
\* (and the width not yet reached), the padding is 5 spaces more than for the
\* same content without the code.
C9_FiveMoreSpaces ==
    [][(AtWidth /\ EscCount(a_out) = 1 /\ Int_(a_parts[a_i + 1]) > Len(Visible(a_out)))
        => Len(a_out') - Len(a_out)
            = Max0(Int_(a_parts[a_i + 1]) - Len(Visible(a_out))) + 5]_vars

\* C9 amended: with one color code of k characters in parsed_line, the padding is
\* max(0, P + 5 - k), P the difference of the width and the visible length: the
\* padding of the escape-free case for a 5-character code (GREEN, YELLOW), one
\* more for the 4-character RESET_FMT unless P < 0.
C9_EscapeAware ==
    [][(AtWidth /\ EscCount(a_out) = 1)
        => LET P == Int_(a_parts[a_i + 1]) - Len(Visible(a_out))
               k == Len(a_out) - Len(Visible(a_out))
               added == Len(a_out') - Len(a_out)
           IN  /\ k \in {4, 5}
               /\ added = Max0(P + 5 - k)
               /\ k = 5 => added = Max0(P)
               /\ (k = 4 /\ P >= 0) => added = Max0(P) + 1]_vars

C9_Witness ==
    /\ a_pc = "loop"
    /\ a_i = 2
    /\ a_parts[1] = GREEN \o <<"X">>
    /\ a_parts[2] = <<"5">>
    /\ a_out = GREEN \o <<"X", " ", " ", " ", " ">>

====
